---- MODULE Spec2Model ----
(***************************************************************************)
(* A model of relative_verse_finder.py: the reference normaliser           *)
(* (scripture_format_validator), the table extractor (parse_html_data),    *)
(* the index builder (build_bidirectional_dict) and the two lookups        *)
(* (dict_lookup, filter_lookup).                                           *)
(*                                                                         *)
(* A Python str is a sequence of one-character strings.  A Python list is  *)
(* an object with an identity: `heap` maps an address to the list's        *)
(* current contents, and a dict value or a dict of lists holds addresses,  *)
(* so that list.copy() and list.extend() are modelled as what they do to   *)
(* objects, not only to values.                                            *)
(***************************************************************************)
EXTENDS Integers, Sequences, FiniteSets, TLC

VARIABLES
    pc,               \* position of the program
    raw,              \* the string handed to scripture_format_validator
    out,              \* its outcome: [ok, value]
    out2,             \* the outcome of validating out.value again
    psalms_list,      \* parse_html_data: the "Psalms:" cells, each a sequence of link texts
    related_list,     \* parse_html_data: the "After What Scripture:" cells
    heap,             \* address -> contents of the list object at that address
    psalm_chapters,   \* dict: index -> address of a list of references
    related_chapters, \* dict: index -> address of a list of references
    scripture_map,    \* dict in insertion order: sequence of <<key, address>>
    build_error,      \* the exception build_bidirectional_dict raised, or "none"
    reference,        \* the reference last looked up
    dict_result,      \* what dict_lookup returned for it
    printed,          \* whether dict_lookup printed "Showing results for ..."
    filtered_result   \* what filter_lookup returned for it, or the exception

vars == <<pc, raw, out, out2, psalms_list, related_list, heap, psalm_chapters,
          related_chapters, scripture_map, build_error, reference, dict_result,
          printed, filtered_result>>

normVars == <<raw, out, out2>>
tableVars == <<psalms_list, related_list, heap, psalm_chapters, related_chapters,
               scripture_map, build_error, reference, dict_result, printed,
               filtered_result>>

-----------------------------------------------------------------------------
(* Bounds *)

\* longest raw string typed into the validator
MaxLen == 7
\* most cells of one kind in the scraped table
MaxRows == 2
\* most <a> links in the scraped table, over all cells
MaxLinks == 4

-----------------------------------------------------------------------------
(* Characters and character classes of the regular expressions *)

LowerLetters == <<"a", "p", "s">>
UpperLetters == <<"A", "P", "S">>

\* [A-Za-z], over the letters the model types
Alpha == {"a", "p", "s", "A", "P", "S"}
\* \d
Digit == {"0", "1", "2", "3", "4", "5", "6", "7", "8", "9"}
\* \s
Space == {" "}
\* [A-Za-z0-9]
AlNum == Alpha \cup Digit

\* the characters a raw string is typed from
InputChars == {"p", "s", "A", "1", " ", ":"}

Upper(c) ==
    IF \E i \in 1..Len(LowerLetters) : LowerLetters[i] = c
    THEN UpperLetters[CHOOSE i \in 1..Len(LowerLetters) : LowerLetters[i] = c]
    ELSE c

Lower(c) ==
    IF \E i \in 1..Len(UpperLetters) : UpperLetters[i] = c
    THEN LowerLetters[CHOOSE i \in 1..Len(UpperLetters) : UpperLetters[i] = c]
    ELSE c

Min(a, b) == IF a <= b THEN a ELSE b

\* length of the longest run of characters of class C that starts at position i
RunLen(s, i, C) ==
    CHOOSE n \in 0..(Len(s) + 1 - i) :
        /\ \A k \in i..(i + n - 1) : s[k] \in C
        /\ (i + n > Len(s) \/ s[i + n] \notin C)

\* length of the longest run of characters of class C that ends at position i
RunLenBack(s, i, C) ==
    CHOOSE n \in 0..i :
        /\ \A k \in (i - n + 1)..i : s[k] \in C
        /\ (i - n < 1 \/ s[i - n] \notin C)

\* the characters of s at the positions keep says TRUE for, in order
RECURSIVE Pick(_, _, _)
Pick(s, keep, i) ==
    IF i > Len(s) THEN <<>>
    ELSE (IF keep[i] THEN <<s[i]>> ELSE <<>>) \o Pick(s, keep, i + 1)

-----------------------------------------------------------------------------
(* scripture_format_validator, step by step *)

\* str.title(): a letter is upper-cased unless the character before it is a
\* letter, and then it is lower-cased
Title(s) ==
    [i \in 1..Len(s) |->
        IF s[i] \in Alpha
        THEN IF i > 1 /\ s[i - 1] \in Alpha THEN Lower(s[i]) ELSE Upper(s[i])
        ELSE s[i]]

\* str.strip()
Strip(s) ==
    LET lead == RunLen(s, 1, Space)
        trail == RunLenBack(s, Len(s), Space)
    IN  IF lead = Len(s) THEN <<>> ELSE SubSeq(s, lead + 1, Len(s) - trail)

\* re.sub(r"^(\d+)\s+([A-Za-z])", r'\1\2', s)
JoinNumericPrefix(s) ==
    LET d == RunLen(s, 1, Digit)
        w == RunLen(s, d + 1, Space)
    IN  IF d >= 1 /\ w >= 1 /\ d + w + 1 <= Len(s) /\ s[d + w + 1] \in Alpha
        THEN SubSeq(s, 1, d) \o SubSeq(s, d + w + 1, Len(s))
        ELSE s

\* re.sub(r'(^[A-Za-z0-9]+)', lambda m: m.group(1)[:3], s)
TruncateBook(s) ==
    LET t == RunLen(s, 1, AlNum)
    IN  IF t >= 1 THEN SubSeq(s, 1, Min(t, 3)) \o SubSeq(s, t + 1, Len(s)) ELSE s

\* re.sub(r'\s+', ' ', s)
CollapseSpaces(s) ==
    LET first == [i \in 1..Len(s) |-> s[i] \notin Space \/ i = 1 \/ s[i - 1] \notin Space]
        one == [i \in 1..Len(s) |-> IF s[i] \in Space THEN " " ELSE s[i]]
    IN  Pick(one, first, 1)

\* re.sub(r'\s*:\s*', ':', s): a run of whitespace next to a colon goes
TightenColons(s) ==
    LET keep == [i \in 1..Len(s) |->
                    \/ s[i] \notin Space
                    \/ LET a == i - RunLenBack(s, i, Space) + 1
                           b == i + RunLen(s, i, Space) - 1
                       IN  /\ ~(a > 1 /\ s[a - 1] = ":")
                           /\ ~(b < Len(s) /\ s[b + 1] = ":")]
    IN  Pick(s, keep, 1)

\* re.match(r"([A-Za-z0-9]+)\s+(\d+)", s): anchored at the start only
HasChapter(s) ==
    LET t == RunLen(s, 1, AlNum)
        w == RunLen(s, t + 1, Space)
    IN  t >= 1 /\ w >= 1 /\ t + w + 1 <= Len(s) /\ s[t + w + 1] \in Digit

\* whether r'Psa\s*(\d+)' matches at position p
PsaAt(s, p) ==
    /\ p + 2 <= Len(s)
    /\ SubSeq(s, p, p + 2) = <<"P", "s", "a">>
    /\ LET w == RunLen(s, p + 3, Space)
       IN  RunLen(s, p + 3 + w, Digit) >= 1

PsalmChapterOnly_NoSpace(s) ==
    IF \E p \in 1..Len(s) : PsaAt(s, p)
    THEN LET p == CHOOSE q \in 1..Len(s) : PsaAt(s, q) /\ \A r \in 1..(q - 1) : ~PsaAt(s, r)
             w == RunLen(s, p + 3, Space)
             d == RunLen(s, p + 3 + w, Digit)
         IN  SubSeq(s, 1, p - 1) \o <<"P", "s", "a">>
                 \o SubSeq(s, p + 3 + w, p + 3 + w + d - 1)
    ELSE s

PsalmChapterOnly_AnyBook(s) ==
    LET t == RunLen(s, 1, AlNum)
        w == RunLen(s, t + 1, Space)
        d == RunLen(s, t + w + 1, Digit)
    IN  SubSeq(s, 1, t + w + d)

\* re.sub(r'Psa\s*(\d+).*', r'Psa \1', s): the leftmost match anywhere in s;
\* .* runs to the end of s (no newline is left after CollapseSpaces)
PsalmChapterOnly(s) ==
    IF \E p \in 1..Len(s) : PsaAt(s, p)
    THEN LET p == CHOOSE q \in 1..Len(s) : PsaAt(s, q) /\ \A r \in 1..(q - 1) : ~PsaAt(s, r)
             w == RunLen(s, p + 3, Space)
             d == RunLen(s, p + 3 + w, Digit)
         IN  SubSeq(s, 1, p - 1) \o <<"P", "s", "a", " ">>
                 \o SubSeq(s, p + 3 + w, p + 3 + w + d - 1)
    ELSE s

\* the string as it stands at the chapter check (lines 154-166)
Prepared(s) ==
    TightenColons(CollapseSpaces(TruncateBook(JoinNumericPrefix(Strip(Title(s))))))

\* scripture_format_validator: ok = FALSE is the ValueError, which carries
\* the offending string
scripture_format_validator(s) ==
    LET e == Prepared(s)
    IN  IF ~HasChapter(e)
        THEN [ok |-> FALSE, value |-> e]
        ELSE [ok |-> TRUE, value |-> PsalmChapterOnly(e)]

NoOutcome == [ok |-> FALSE, value |-> <<>>]

-----------------------------------------------------------------------------
(* The normaliser as a state machine: a caller types a string, validates   *)
(* it (cli_interface, lines 334 and 352) and may validate the result again *)

TypeChar(c) ==
    /\ pc = "input"
    /\ Len(raw) < MaxLen
    /\ raw' = Append(raw, c)
    /\ UNCHANGED <<pc, out, out2>>
    /\ UNCHANGED tableVars

Validate ==
    /\ pc = "input"
    /\ out' = scripture_format_validator(raw)
    /\ pc' = "validated"
    /\ UNCHANGED <<raw, out2>>
    /\ UNCHANGED tableVars

Revalidate ==
    /\ pc = "validated"
    /\ out.ok
    /\ out2' = scripture_format_validator(out.value)
    /\ pc' = "revalidated"
    /\ UNCHANGED <<raw, out>>
    /\ UNCHANGED tableVars

TableIdle ==
    /\ psalms_list = <<>>
    /\ related_list = <<>>
    /\ heap = <<>>
    /\ psalm_chapters = <<>>
    /\ related_chapters = <<>>
    /\ scripture_map = <<>>
    /\ build_error = "none"
    /\ reference = <<>>
    /\ dict_result = [nested |-> FALSE, items |-> <<>>]
    /\ printed = FALSE
    /\ filtered_result = [raised |-> "none", items |-> <<>>]

NormIdle ==
    /\ raw = <<>>
    /\ out = NoOutcome
    /\ out2 = NoOutcome

InitNormalizer ==
    /\ pc = "input"
    /\ NormIdle
    /\ TableIdle

NextNormalizer ==
    \/ \E c \in InputChars : TypeChar(c)
    \/ Validate
    \/ Revalidate

SpecNormalizer == InitNormalizer /\ [][NextNormalizer]_vars

-----------------------------------------------------------------------------
(* Python values of the table part *)

PsaPrefix == <<"P", "s", "a", " ">>
Psa2 == <<"P", "s", "a", " ", "2">>
Psa3 == <<"P", "s", "a", " ", "3">>
Psa2v5 == <<"P", "s", "a", " ", "2", ":", "5">>
Dan7v28 == <<"D", "a", "n", " ", "7", ":", "2", "8">>
Dan7v9 == <<"D", "a", "n", " ", "7", ":", "9">>
Dan7v1 == <<"D", "a", "n", " ", "7", ":", "1">>
Rev19v15 == <<"R", "e", "v", " ", "1", "9", ":", "1", "5">>

\* the link texts a "Psalms:" cell may hold (bare numerals)
PsalmTexts == {<<"2">>, <<"3">>}
\* the link texts an "After What Scripture:" cell may hold
RelatedTexts == {Dan7v28, Dan7v9, Psa2}
\* the references looked up (main's test_scriptures among them)
Queries == {Psa2, Psa3, Dan7v28, Dan7v9, Psa2v5, Dan7v1, Rev19v15}

Elems(list) == {list[i] : i \in 1..Len(list)}

RECURSIVE Concat(_)
Concat(lists) == IF lists = <<>> THEN <<>> ELSE Head(lists) \o Concat(Tail(lists))

RECURSIVE SumLen(_)
SumLen(lists) == IF lists = <<>> THEN 0 ELSE Len(Head(lists)) + SumLen(Tail(lists))

\* dict with int keys 0..n-1 in insertion order: a function on 0..n-1
DictKeys(d) == DOMAIN d

\* scripture_map: key in dict / dict[key]
MapHas(m, k) == \E j \in 1..Len(m) : m[j][1] = k
MapGet(m, k) == m[CHOOSE j \in 1..Len(m) : m[j][1] = k][2]

\* reference.split(":")[0] if ":" in reference else reference
BeforeColon(r) ==
    IF \E i \in 1..Len(r) : r[i] = ":"
    THEN SubSeq(r, 1, (CHOOSE i \in 1..Len(r) : r[i] = ":" /\ \A k \in 1..(i - 1) : r[k] # ":") - 1)
    ELSE r

-----------------------------------------------------------------------------
(* parse_html_data *)

\* ['Psa ' + num for num in psa_match]
PsalmRefs(cell) == [k \in 1..Len(cell) |-> PsaPrefix \o cell[k]]

\* the heap parse_html_data leaves: one list object per cell, Psalms first
ParsedHeap(pl, rl) ==
    [a \in 1..(Len(pl) + Len(rl)) |->
        IF a <= Len(pl) THEN PsalmRefs(pl[a]) ELSE rl[a - Len(pl)]]

\* psalm_chapters[index] for index, chapter in enumerate(psalms_list)
ParsedPsalms(pl, rl) == [i \in 0..(Len(pl) - 1) |-> i + 1]

\* related_chapters[index] for index, chapter in enumerate(related_list)
ParsedRelated(pl, rl) == [i \in 0..(Len(rl) - 1) |-> Len(pl) + i + 1]

-----------------------------------------------------------------------------
(* build_bidirectional_dict *)

ListCopy_Alias(h, a) == [heap |-> h, addr |-> a]

\* list.copy(): a new object with the same contents
ListCopy(h, a) == [heap |-> Append(h, h[a]), addr |-> Len(h) + 1]

ExtendList_Skip(h, a, b) == h

\* list.extend(): the object at a grows by the contents of the object at b
ExtendList(h, a, b) == [h EXCEPT ![a] = @ \o h[b]]

\* one of the two inner loops: every key of keys gains the list at other.
\* keys is the list being iterated; the loop never changes it.
RECURSIVE AddAll(_, _, _, _)
AddAll(st, keys, i, other) ==
    IF i > Len(keys) THEN st
    ELSE LET k == keys[i]
         IN  IF ~MapHas(st.map, k)
             THEN LET c == ListCopy(st.heap, other)
                  IN  AddAll([heap |-> c.heap, map |-> Append(st.map, <<k, c.addr>>)],
                             keys, i + 1, other)
             ELSE AddAll([heap |-> ExtendList(st.heap, MapGet(st.map, k), other),
                          map |-> st.map],
                         keys, i + 1, other)

BuildRow_OneWay(st, pa, ra) == AddAll(st, st.heap[pa], 1, ra)

\* the body of `for index in psalm_chapters`, pa and ra the addresses of
\* psalm_chapters[index] and related_chapters[index]
BuildRow(st, pa, ra) ==
    LET half == AddAll(st, st.heap[pa], 1, ra)
    IN  AddAll(half, half.heap[ra], 1, pa)

RECURSIVE BuildFrom(_, _, _, _)
BuildFrom(st, pch, rch, index) ==
    IF index \notin DictKeys(pch) THEN st
    ELSE BuildFrom(BuildRow(st, pch[index], rch[index]), pch, rch, index + 1)

\* build_bidirectional_dict: related_chapters[index] raises KeyError for an
\* index of psalm_chapters that related_chapters lacks
build_bidirectional_dict(h, pch, rch) ==
    IF \E index \in DictKeys(pch) : index \notin DictKeys(rch)
    THEN [raised |-> "KeyError", heap |-> h, map |-> <<>>]
    ELSE LET st == BuildFrom([heap |-> h, map |-> <<>>], pch, rch, 0)
         IN  [raised |-> "none", heap |-> st.heap, map |-> st.map]

-----------------------------------------------------------------------------
(* dict_lookup and filter_lookup *)

\* [scripture_map[key] for key in scripture_map.keys() if key.split(":")[0] == base]
RECURSIVE ChapterMatches(_, _, _, _)
ChapterMatches(m, h, base, j) ==
    IF j > Len(m) THEN <<>>
    ELSE (IF BeforeColon(m[j][1]) = base THEN <<h[m[j][2]]>> ELSE <<>>)
             \o ChapterMatches(m, h, base, j + 1)

\* dict_lookup: nested says that items is a list of lists of references;
\* printed says that "Showing results for <base>" was printed
dict_lookup(ref, m, h) ==
    IF MapHas(m, ref)
    THEN [nested |-> FALSE, items |-> h[MapGet(m, ref)], printed |-> FALSE]
    ELSE LET matches == ChapterMatches(m, h, BeforeColon(ref), 1)
         IN  IF matches # <<>>
             THEN [nested |-> TRUE, items |-> matches, printed |-> TRUE]
             ELSE [nested |-> FALSE, items |-> <<>>, printed |-> TRUE]

\* the indices of d, in order, whose list satisfies the test: exact is
\* `reference in list`, otherwise the chapter-level comparison
RECURSIVE Matches(_, _, _, _, _)
Matches(d, h, ref, exact, i) ==
    IF i \notin DictKeys(d) THEN <<>>
    ELSE LET list == h[d[i]]
             hit == IF exact THEN ref \in Elems(list)
                    ELSE ref \in {BeforeColon(x) : x \in Elems(list)}
         IN  (IF hit THEN <<i>> ELSE <<>>) \o Matches(d, h, ref, exact, i + 1)

\* filter_lookup: other[index] raises KeyError for a matching index that the
\* other dict lacks
filter_lookup(ref, pch, rch, h) ==
    LET exactP == Matches(pch, h, ref, TRUE, 0)
        exactR == Matches(rch, h, ref, TRUE, 0)
        fallback == exactP = <<>> /\ exactR = <<>>
        base == BeforeColon(ref)
        psalm_matches == IF fallback THEN Matches(pch, h, base, FALSE, 0) ELSE exactP
        related_matches == IF fallback THEN Matches(rch, h, base, FALSE, 0) ELSE exactR
    IN  IF \/ \E k \in 1..Len(psalm_matches) : psalm_matches[k] \notin DictKeys(rch)
           \/ \E k \in 1..Len(related_matches) : related_matches[k] \notin DictKeys(pch)
        THEN [raised |-> "KeyError", items |-> <<>>]
        ELSE [raised |-> "none",
              items |-> Concat([k \in 1..Len(psalm_matches) |-> h[rch[psalm_matches[k]]]])
                        \o Concat([k \in 1..Len(related_matches) |-> h[pch[related_matches[k]]]])]

-----------------------------------------------------------------------------
(* The table part as a state machine: the page grows cell by cell and link *)
(* by link, is parsed, the index is built, and references are looked up    *)

NewPsalmsCell ==
    /\ pc = "scraping"
    /\ Len(psalms_list) < MaxRows
    /\ psalms_list' = Append(psalms_list, <<>>)
    /\ UNCHANGED <<pc, related_list, heap, psalm_chapters, related_chapters,
                   scripture_map, build_error, reference, dict_result, printed,
                   filtered_result>>
    /\ UNCHANGED normVars

NewRelatedCell ==
    /\ pc = "scraping"
    /\ Len(related_list) < MaxRows
    /\ related_list' = Append(related_list, <<>>)
    /\ UNCHANGED <<pc, psalms_list, heap, psalm_chapters, related_chapters,
                   scripture_map, build_error, reference, dict_result, printed,
                   filtered_result>>
    /\ UNCHANGED normVars

PsalmLink(t) ==
    /\ pc = "scraping"
    /\ psalms_list # <<>>
    /\ SumLen(psalms_list) + SumLen(related_list) < MaxLinks
    /\ psalms_list' = [psalms_list EXCEPT ![Len(psalms_list)] = Append(@, t)]
    /\ UNCHANGED <<pc, related_list, heap, psalm_chapters, related_chapters,
                   scripture_map, build_error, reference, dict_result, printed,
                   filtered_result>>
    /\ UNCHANGED normVars

RelatedLink(t) ==
    /\ pc = "scraping"
    /\ related_list # <<>>
    /\ SumLen(psalms_list) + SumLen(related_list) < MaxLinks
    /\ related_list' = [related_list EXCEPT ![Len(related_list)] = Append(@, t)]
    /\ UNCHANGED <<pc, psalms_list, heap, psalm_chapters, related_chapters,
                   scripture_map, build_error, reference, dict_result, printed,
                   filtered_result>>
    /\ UNCHANGED normVars

Parse ==
    /\ pc = "scraping"
    /\ heap' = ParsedHeap(psalms_list, related_list)
    /\ psalm_chapters' = ParsedPsalms(psalms_list, related_list)
    /\ related_chapters' = ParsedRelated(psalms_list, related_list)
    /\ pc' = "parsed"
    /\ UNCHANGED <<psalms_list, related_list, scripture_map, build_error,
                   reference, dict_result, printed, filtered_result>>
    /\ UNCHANGED normVars

Build ==
    /\ pc = "parsed"
    /\ LET b == build_bidirectional_dict(heap, psalm_chapters, related_chapters)
       IN  /\ build_error' = b.raised
           /\ heap' = b.heap
           /\ scripture_map' = b.map
           /\ pc' = IF b.raised = "none" THEN "built" ELSE "failed"
    /\ UNCHANGED <<psalms_list, related_list, psalm_chapters, related_chapters,
                   reference, dict_result, printed, filtered_result>>
    /\ UNCHANGED normVars

\* main's loop body: both lookups of one reference
Lookup(ref) ==
    /\ pc = "built"
    /\ LET d == dict_lookup(ref, scripture_map, heap)
           f == filter_lookup(ref, psalm_chapters, related_chapters, heap)
       IN  /\ reference' = ref
           /\ dict_result' = [nested |-> d.nested, items |-> d.items]
           /\ printed' = d.printed
           /\ filtered_result' = f
           /\ pc' = IF f.raised = "none" THEN "looked" ELSE "crashed"
    /\ UNCHANGED <<psalms_list, related_list, heap, psalm_chapters,
                   related_chapters, scripture_map, build_error>>
    /\ UNCHANGED normVars

\* the loop goes on to its next reference; the lookups changed no structure
NextReference ==
    /\ pc = "looked"
    /\ pc' = "built"
    /\ reference' = <<>>
    /\ dict_result' = [nested |-> FALSE, items |-> <<>>]
    /\ printed' = FALSE
    /\ filtered_result' = [raised |-> "none", items |-> <<>>]
    /\ UNCHANGED <<psalms_list, related_list, heap, psalm_chapters,
                   related_chapters, scripture_map, build_error>>
    /\ UNCHANGED normVars

InitTable ==
    /\ pc = "scraping"
    /\ NormIdle
    /\ TableIdle

NextTable ==
    \/ NewPsalmsCell
    \/ NewRelatedCell
    \/ \E t \in PsalmTexts : PsalmLink(t)
    \/ \E t \in RelatedTexts : RelatedLink(t)
    \/ Parse
    \/ Build
    \/ \E ref \in Queries : Lookup(ref)
    \/ NextReference

SpecTable == InitTable /\ [][NextTable]_vars

-----------------------------------------------------------------------------
(* Properties of the normaliser, under SpecNormalizer *)

\* <book token of 1 to 3 alphanumerics><one space><digits>[:<digits>], whole
Canonical(s) ==
    LET t == RunLen(s, 1, AlNum)
        c == RunLen(s, t + 2, Digit)
        v == RunLen(s, t + c + 3, Digit)
    IN  /\ t \in 1..3
        /\ t + 1 <= Len(s) /\ s[t + 1] = " "
        /\ c >= 1
        /\ \/ t + 1 + c = Len(s)
           \/ /\ t + c + 2 <= Len(s) /\ s[t + c + 2] = ":"
              /\ v >= 1
              /\ t + c + 2 + v = Len(s)

\* the leading alphanumeric token of a string
BookToken(s) == SubSeq(s, 1, RunLen(s, 1, AlNum))

\* position of the last chapter digit of a string that passed HasChapter
ChapterEnd(s) ==
    LET t == RunLen(s, 1, AlNum)
        w == RunLen(s, t + 1, Space)
    IN  t + w + RunLen(s, t + w + 1, Digit)

\* position of the last character of the ":<verse>" suffix that follows the
\* chapter, or of the chapter when no colon follows it
VerseEnd(s) ==
    LET c == ChapterEnd(s)
    IN  IF c + 1 <= Len(s) /\ s[c + 1] = ":"
        THEN c + 1 + RunLen(s, c + 2, Digit)
        ELSE c

\* C3: a string the validator returned is accepted again and returned unchanged.
Idempotent ==
    pc = "revalidated" => (out2.ok /\ out2.value = out.value)

\* C3 witness: a raw string that normalisation changed was validated twice.
IdempotentWitness ==
    /\ pc = "revalidated"
    /\ out.value # raw
    /\ BookToken(out.value) = <<"P", "s", "a">>
    /\ out2 = out

\* C4: whatever the validator returns is, as a whole, a canonical reference,
\* and a string whose prepared form is not canonical is rejected.
OnlyCanonicalAccepted ==
    pc = "validated" =>
        /\ out.ok => Canonical(out.value)
        /\ ~Canonical(Prepared(raw)) => ~out.ok

\* C10: a reference whose book token is "Psa" is returned as "Psa <chapter>"
\* without a colon; any other keeps its book, chapter and ":<verse>" suffix.
PsalmChapterGranularity ==
    (pc = "validated" /\ out.ok) =>
        LET e == Prepared(raw)
            c == ChapterEnd(e)
            v == VerseEnd(e)
        IN  IF BookToken(out.value) = <<"P", "s", "a">>
            THEN /\ out.value = SubSeq(e, 1, c)
                 /\ ":" \notin Elems(out.value)
            ELSE /\ Len(out.value) >= v
                 /\ SubSeq(out.value, 1, v) = SubSeq(e, 1, v)

\* C10 witness: a Psalm reference with a verse was validated and lost it.
PsalmChapterGranularityWitness ==
    /\ pc = "validated"
    /\ out.ok
    /\ BookToken(out.value) = <<"P", "s", "a">>
    /\ VerseEnd(Prepared(raw)) > ChapterEnd(Prepared(raw)) + 1
    /\ ":" \notin Elems(out.value)

-----------------------------------------------------------------------------
(* Properties of the table part, under SpecTable *)

\* the two group maps have the same GroupIndex keys
Paired == DictKeys(psalm_chapters) = DictKeys(related_chapters)

\* r occurs in some list of psalm_chapters or related_chapters
Occurs(r) ==
    \/ \E i \in DictKeys(psalm_chapters) : r \in Elems(heap[psalm_chapters[i]])
    \/ \E i \in DictKeys(related_chapters) : r \in Elems(heap[related_chapters[i]])

\* C1: for paired maps and a reference that occurs in them, the index lookup
\* and the scan lookup return the same set of references.
IndexScanEquivalence ==
    (pc \in {"looked", "crashed"} /\ Paired /\ Occurs(reference)) =>
        /\ ~dict_result.nested
        /\ filtered_result.raised = "none"
        /\ Elems(dict_result.items) = Elems(filtered_result.items)

\* C1 witness: a reference of two rows was looked up and has two relations.
IndexScanEquivalenceWitness ==
    /\ pc = "looked"
    /\ Paired
    /\ Cardinality({i \in DictKeys(psalm_chapters) :
                        reference \in Elems(heap[psalm_chapters[i]])}) = 2
    /\ Cardinality(Elems(filtered_result.items)) = 2
    /\ Elems(dict_result.items) = Elems(filtered_result.items)

\* C2: when the reference is no key, dict_lookup returns the flat
\* concatenation of the value lists of the keys that match at chapter level.
FlatChapterFallback ==
    (pc = "looked" /\ ~MapHas(scripture_map, reference)) =>
        /\ ~dict_result.nested
        /\ dict_result.items =
               Concat(ChapterMatches(scripture_map, heap, BeforeColon(reference), 1))

\* C5: per row of paired maps, every psalm reference has every related
\* reference among its values, and the other way round.
BidirectionalPerRow ==
    (pc = "built" /\ Paired) =>
        \A i \in DictKeys(psalm_chapters) :
            \A a \in Elems(heap[psalm_chapters[i]]) :
                \A b \in Elems(heap[related_chapters[i]]) :
                    /\ MapHas(scripture_map, a)
                    /\ b \in Elems(heap[MapGet(scripture_map, a)])
                    /\ MapHas(scripture_map, b)
                    /\ a \in Elems(heap[MapGet(scripture_map, b)])

\* C5 witness: an index was built from a row of two psalms and a related
\* reference, and from a second row.
BidirectionalPerRowWitness ==
    /\ pc = "built"
    /\ Paired
    /\ Len(psalms_list) = 2
    /\ \E i \in DictKeys(psalm_chapters) :
           /\ Cardinality(Elems(heap[psalm_chapters[i]])) = 2
           /\ heap[related_chapters[i]] # <<>>

\* the heap after one more reference is appended in place to the list at a
ExtendInPlace(h, a, x) == [h EXCEPT ![a] = Append(@, x)]

\* C6: the build leaves the lists of the group maps as parsed, and
\* extending one key's value list in place changes no other key's value
\* list and no list of the group maps.
NonAliasing ==
    pc = "built" =>
        /\ \A i \in DictKeys(psalm_chapters) :
               heap[psalm_chapters[i]] = PsalmRefs(psalms_list[i + 1])
        /\ \A i \in DictKeys(related_chapters) :
               heap[related_chapters[i]] = related_list[i + 1]
        /\ \A j \in 1..Len(scripture_map) :
               LET after == ExtendInPlace(heap, scripture_map[j][2], Rev19v15)
               IN  /\ \A k \in 1..Len(scripture_map) :
                          k # j => after[scripture_map[k][2]] = heap[scripture_map[k][2]]
                   /\ \A i \in DictKeys(psalm_chapters) :
                          after[psalm_chapters[i]] = heap[psalm_chapters[i]]
                   /\ \A i \in DictKeys(related_chapters) :
                          after[related_chapters[i]] = heap[related_chapters[i]]

\* C6 witness: two distinct keys were first populated from the same row and
\* hold equal, non-empty value lists.
NonAliasingWitness ==
    /\ pc = "built"
    /\ \E j, k \in 1..Len(scripture_map) :
           /\ j # k
           /\ heap[scripture_map[j][2]] = heap[scripture_map[k][2]]
           /\ heap[scripture_map[j][2]] # <<>>
           /\ \E i \in DictKeys(psalm_chapters) :
                  {scripture_map[j][1], scripture_map[k][1]}
                      \subseteq Elems(heap[psalm_chapters[i]])

\* C7: the extractor populates exactly the indices 0 .. min(m, n) - 1 in
\* both maps, m and n the numbers of cells of the two kinds.
ShorterLengthPopulated ==
    pc \in {"parsed", "built", "failed", "looked", "crashed"} =>
        LET upto == 0..(Min(Len(psalms_list), Len(related_list)) - 1)
        IN  /\ DictKeys(psalm_chapters) = upto
            /\ DictKeys(related_chapters) = upto

\* C8: dict_lookup reports a chapter-level match exactly when the reference
\* is no key and some key matches at chapter level.
DegradedReportExact ==
    pc = "looked" =>
        (printed <=>
            /\ ~MapHas(scripture_map, reference)
            /\ ChapterMatches(scripture_map, heap, BeforeColon(reference), 1) # <<>>)

\* C9: no lookup on the extractor's maps and the index built from them raises.
LookupsTotal ==
    pc \in {"looked", "crashed"} => filtered_result.raised = "none"

====
